---------------------------- MODULE Spec2Model ----------------------------
(***************************************************************************)
(* Model of the entitlement and rate-limit store, src/user_manager.py      *)
(* (class UserManager over an SQLite file).                                *)
(*                                                                         *)
(* The store is three tables (users, questions, rate_limits).  Every       *)
(* method opens a connection of its own, so requests handled by different  *)
(* threads or processes interleave statement by statement; SQLite lets     *)
(* one connection at a time hold the write lock, taken by the first        *)
(* INSERT/UPDATE/DELETE of a transaction and released by commit() or by    *)
(* close() (which rolls back what was not committed).                      *)
(*                                                                         *)
(* Text is modelled as sequences: an email is a sequence of characters, a  *)
(* stored timestamp is a sequence of numbers compared field by field the   *)
(* way SQLite compares the fixed-width text it stands for.                 *)
(***************************************************************************)
EXTENDS Integers, Sequences, FiniteSets, TLC

VARIABLES
    now,          \* the wall clock, UTC, in seconds since 1 January 00:00:00
    tz,           \* the server's local-time offset from UTC, in seconds
    users,        \* committed rows of table users, in rowid order
    questions,    \* committed rows of table questions, in rowid order
    rate_limits,  \* committed rows of table rate_limits, in rowid order
    lock,         \* the connection holding SQLite's write lock, or NoProc
    work,         \* that connection's uncommitted view of the three tables
    pc,           \* per request thread: the statement it executes next
    loc,          \* per request thread: the method's local variables
    ret,          \* per request thread: the last call and what it returned
    req           \* per request thread: where its chat handler stands

vars == <<now, tz, users, questions, rate_limits, lock, work, pc, loc, ret, req>>

---------------------------------------------------------------------------
(* Bounds of the model.                                                    *)

\* Request threads that may run concurrently.
Procs == {1, 2}
NoProc == 0

\* upgrade_user is called with months in 1..MaxMonths.
MaxMonths == 2

\* At most this many rows of table rate_limits.
MaxWindows == 2

\* Rows of table questions: at most StoreQuestions under Spec,
\* QuotaQuestions under SpecQuota, MonthlyQuestions under SpecMonthly.
StoreQuestions == 1
QuotaQuestions == 6
MonthlyQuestions == 101

\* The calls of a run of check_rate_limit calls are numbered up to MaxRun.
MaxRun == 5

---------------------------------------------------------------------------
(* Python values.                                                          *)

\* Python's None and SQL's NULL; an optional value is <<>> or <<v>>.
None == <<>>
Some(v) == <<v>>

---------------------------------------------------------------------------
(* Characters and strings (sequences of one-character strings).            *)

UpperAlpha == <<"A","B","C","D","E","F","G","H","I","J","K","L","M",
                "N","O","P","Q","R","S","T","U","V","W","X","Y","Z">>
LowerAlpha == <<"a","b","c","d","e","f","g","h","i","j","k","l","m",
                "n","o","p","q","r","s","t","u","v","w","x","y","z">>
Digits == {"0","1","2","3","4","5","6","7","8","9"}
Letters == {UpperAlpha[i] : i \in 1..26} \cup {LowerAlpha[i] : i \in 1..26}
\* What str.strip() removes (the ASCII part of it).
Whitespace == {" ", "\t", "\n", "\r", "\f"}

\* str.lower() on one character.
LowerChar(c) ==
    IF \E i \in 1..26 : UpperAlpha[i] = c
    THEN LowerAlpha[CHOOSE i \in 1..26 : UpperAlpha[i] = c]
    ELSE c

\* str.lower()
Lower(s) == [i \in 1..Len(s) |-> LowerChar(s[i])]

\* str.strip(): drops the leading and the trailing whitespace.
Strip(s) ==
    LET keep == {i \in 1..Len(s) : s[i] \notin Whitespace}
    IN  IF keep = {} THEN <<>>
        ELSE LET lo == CHOOSE i \in keep : \A j \in keep : i <= j
                 hi == CHOOSE i \in keep : \A j \in keep : j <= i
             IN  SubSeq(s, lo, hi)

\* The character classes of validate_email's pattern.
LocalChars == Letters \cup Digits \cup {".", "_", "%", "+", "-"}
DomainChars == Letters \cup Digits \cup {".", "-"}

\* The validation as it would be if every string passed.
validate_email_AcceptsAll(email) == TRUE

\* validate_email: re.match of
\*   ^[a-zA-Z0-9._%+-]+@[a-zA-Z0-9.-]+\.[a-zA-Z]{2,}$
\* The pattern matches when the string splits at an "@" (position a) and a
\* "." (position d) into a local part, a domain and a top-level name of two
\* or more letters; Python's $ also matches just before one final newline.
validate_email(email) ==
    \E e \in {Len(email)} \cup
             {n \in {Len(email) - 1} : Len(email) > 0 /\ email[Len(email)] = "\n"} :
      \E a \in 1..e : \E d \in 1..e :
        /\ 1 < a /\ a + 1 < d /\ d + 2 <= e
        /\ email[a] = "@"
        /\ email[d] = "."
        /\ \A i \in 1..(a - 1) : email[i] \in LocalChars
        /\ \A i \in (a + 1)..(d - 1) : email[i] \in DomainChars
        /\ \A i \in (d + 1)..e : email[i] \in Letters

\* hash_email: the SHA-256 digest of the lower-cased email.  The digest is
\* modelled as collision free: a tagged copy of the text it was taken of.
hash_email(email) == <<"sha256", Lower(email)>>

---------------------------------------------------------------------------
(* Time and the text forms of a timestamp.                                 *)

SecondsPerDay == 24 * 60 * 60

\* The calendar of the year the clock runs in: day 0 is 1 January.
MonthLengths == <<31, 28, 31, 30, 31, 30, 31, 31, 30, 31, 30, 31>>

RECURSIVE DaysBeforeMonth(_)
\* The number of the first day of month m + 1 (m = 0 for January).
DaysBeforeMonth(m) == IF m = 0 THEN 0 ELSE DaysBeforeMonth(m - 1) + MonthLengths[m]

\* The first day of the calendar month that day d lies in.
MonthStartDay(d) ==
    LET starts == {DaysBeforeMonth(m) : m \in 0..11}
    IN  CHOOSE s \in starts : s <= d /\ \A s2 \in starts : s2 <= d => s2 <= s

\* Fixed-width text such as "2026-01-31 00:00:30" is modelled as the
\* sequence <<day, separator, second of the day>>: comparing the sequences
\* field by field is comparing the texts byte by byte.  The separator is
\* the byte that follows the date: a blank in SQLite's CURRENT_TIMESTAMP,
\* the letter T in Python's datetime.isoformat().
SepBlank == 32
SepT == 84

\* SQLite's CURRENT_TIMESTAMP at UTC time t: "YYYY-MM-DD HH:MM:SS".
CurrentTimestamp(t) == <<t \div SecondsPerDay, SepBlank, t % SecondsPerDay>>

\* datetime.isoformat() of the datetime t: "YYYY-MM-DDTHH:MM:SS".
isoformat(t) == <<t \div SecondsPerDay, SepT, t % SecondsPerDay>>

\* datetime.fromisoformat(): the datetime a text of either form stands for.
fromisoformat(x) == x[1] * SecondsPerDay + x[3]

\* SQLite's date('now', 'start of month') at UTC time t: "YYYY-MM-01".
StartOfMonth(t) == <<MonthStartDay(t \div SecondsPerDay)>>

\* a < b as SQLite compares two TEXT values (memcmp, a prefix sorts first).
TextLess(a, b) ==
    \E k \in 1..(Len(b)) :
        /\ \A i \in 1..(k - 1) : i <= Len(a) /\ a[i] = b[i]
        /\ \/ k = Len(a) + 1
           \/ k <= Len(a) /\ a[k] < b[k]

\* datetime.now(): the server's local time.
datetime_now == now + tz

---------------------------------------------------------------------------
(* The tables.                                                             *)

\* What init_database leaves in a new file: three empty tables.
NoRows == [users |-> <<>>, questions |-> <<>>, rate_limits |-> <<>>]

\* The committed tables.
Committed == [users |-> users, questions |-> questions, rate_limits |-> rate_limits]

\* What connection p reads: its own uncommitted changes if it holds the
\* write lock, the committed tables otherwise.
View(p) == IF lock = p THEN work ELSE Committed

\* The rows of a table (a sequence) as a set.
Rows(t) == {t[i] : i \in 1..Len(t)}

\* cursor.fetchone(): the first row, in rowid order, that satisfies Test.
FetchOne(t, Test(_)) ==
    LET hits == {i \in 1..Len(t) : Test(t[i])}
    IN  IF hits = {} THEN None
        ELSE Some(t[CHOOSE i \in hits : \A j \in hits : i <= j])

\* SELECT COUNT(*) FROM t WHERE Test
CountRows(t, Test(_)) == Cardinality({i \in 1..Len(t) : Test(t[i])})

\* The users table as it would be without its UNIQUE constraints.
UniqueViolation_Unconstrained(t, email, email_hash) == FALSE

\* The users table's UNIQUE constraints on email and on email_hash.
UniqueViolation(t, email, email_hash) ==
    \E r \in Rows(t) : r.email = email \/ r.email_hash = email_hash

\* The dictionary get_or_create_user builds of a fetched users row.
UserDict(row) ==
    [id |-> row.id, email |-> row.email, created_at |-> row.created_at,
     subscription_tier |-> row.subscription_tier,
     stripe_customer_id |-> row.stripe_customer_id,
     subscription_expires |-> row.subscription_expires]

\* dict.get(key, default) on a dictionary with string keys.
DictGet(d, key, default) == IF key \in DOMAIN d THEN d[key] ELSE default

\* A thread between two calls.
Idle == [op |-> "idle"]
NoCall == [op |-> "none", args |-> <<>>, val |-> <<>>, pre |-> <<>>]

\* A thread that has not handled a chat request: at is the place of the
\* handler the thread stands at, the other fields are the handler's local
\* variables (user['id'], the welcome test, can_proceed, can_ask, reason),
\* whether content was generated, and the response last returned.
NoRequest == [at |-> "start", email |-> <<>>, user_id |-> 0, welcomed |-> FALSE,
              can_proceed |-> FALSE, can_ask |-> FALSE, reason |-> "",
              generated |-> FALSE, response |-> "none"]

\* The record of a finished call: the method, its arguments, the value it
\* returned and, for the properties below, what the call found stored
\* (pre): the tier can_ask_question read, the subscription upgrade_user
\* overwrote, the place of a check_rate_limit call in its run.
Returned(op, args, val, pre) == [op |-> op, args |-> args, val |-> val, pre |-> pre]

\* Thread p returns from a call.
Return(p, call) == ret' = [ret EXCEPT ![p] = call]

---------------------------------------------------------------------------
(* What callers pass in.                                                   *)

EmailA == <<"a", "@", "x", ".", "i", "o">>
EmailAUpper == <<"A", "@", "x", ".", "I", "O">>
EmailB == <<"b", "@", "x", ".", "i", "o">>
NotAnEmail == <<"n", "o", "-", "e">>
\* No top-level name; and a final newline, which the pattern's $ lets pass.
EmailNoTld == <<"a", "@", "x">>
EmailNewline == <<"a", "@", "x", ".", "i", "o", "\n">>
EmailInputs == {EmailA, EmailAUpper, EmailB, NotAnEmail}
\* A valid email with whitespace before it, and with whitespace after it.
EmailLeadingBlank == <<" ", "a", "@", "x", ".", "i", "o">>
EmailTrailingBlank == <<"a", "@", "x", ".", "i", "o", " ">>
PaddedEmailInputs == {EmailA, EmailLeadingBlank, EmailTrailingBlank, EmailNewline}

TierInputs == {"basic", "unlimited", "gold"}
CustomerIdInputs == {Some("cus_1")}

\* The times of 2 January at which the clock is sampled by the rate-limit
\* specifications after the start at 00:00:00 UTC: 00:00:30, 00:01:30 and
\* 00:01:40.
RateSampleTimes == {SecondsPerDay + 30, SecondsPerDay + 90, SecondsPerDay + 100}

\* The days (numbered from 1 January = 0) at whose midnight UTC the clock
\* is sampled after the start on 2 January: 1 February and 2 February.
SampleDays == {31, 32}

---------------------------------------------------------------------------
(* Construction.                                                           *)

Init ==
    /\ now = 1 * SecondsPerDay
    /\ tz = 0
    /\ users = <<>>
    /\ questions = <<>>
    /\ rate_limits = <<>>
    /\ lock = NoProc
    /\ work = NoRows
    /\ pc = [p \in Procs |-> "idle"]
    /\ loc = [p \in Procs |-> Idle]
    /\ ret = [p \in Procs |-> NoCall]
    /\ req = [p \in Procs |-> NoRequest]

\* A server whose local time is five hours behind UTC (US Eastern time).
WestOffset == 0 - 5 * 60 * 60

\* The same, on a server in that time zone.
InitWest ==
    /\ now = 1 * SecondsPerDay
    /\ tz = WestOffset
    /\ users = <<>>
    /\ questions = <<>>
    /\ rate_limits = <<>>
    /\ lock = NoProc
    /\ work = NoRows
    /\ pc = [p \in Procs |-> "idle"]
    /\ loc = [p \in Procs |-> Idle]
    /\ ret = [p \in Procs |-> NoCall]
    /\ req = [p \in Procs |-> NoRequest]

---------------------------------------------------------------------------
(* get_or_create_user                                                      *)

\* The lookup as it would be if it matched the digest against column email.
SelectByHash_WrongColumn(t, email_hash) ==
    LET HasHash(r) == r.email = email_hash
    IN  FetchOne(t, HasHash)

\* Lines 86-87: SELECT * FROM users WHERE email_hash = ?, and fetchone().
SelectByHash(t, email_hash) ==
    LET HasHash(r) == r.email_hash = email_hash
    IN  FetchOne(t, HasHash)

\* Lines 76-98: validation, normalisation and the lookup by email_hash.
GetOrCreateUser_Lookup(p, email) ==
    /\ pc[p] = "idle"
    /\ IF ~validate_email(email)
       THEN /\ Return(p, Returned("get_or_create_user", <<email>>,
                          <<None, Some("Invalid email format")>>, <<>>))
            /\ UNCHANGED <<pc, loc>>
       ELSE LET e == Strip(Lower(email))
                h == hash_email(e)
                user == SelectByHash(View(p).users, h)
            IN  IF user # None
                THEN /\ Return(p, Returned("get_or_create_user",
                                   <<email>>, <<Some(UserDict(user[1])), None>>, <<>>))
                     /\ UNCHANGED <<pc, loc>>
                ELSE /\ pc' = [pc EXCEPT ![p] = "goc_insert"]
                     /\ loc' = [loc EXCEPT ![p] = [op |-> "get_or_create_user",
                                   arg |-> email, email |-> e, email_hash |-> h]]
                     /\ UNCHANGED ret
    /\ UNCHANGED <<now, tz, req, users, questions, rate_limits, lock, work>>

\* Lines 100-120: the INSERT, its commit and the two ways out.  The INSERT
\* waits for the write lock; from there to the commit no other connection
\* can write and every other connection reads the tables as they were, so
\* INSERT and commit are one step.
GetOrCreateUser_Insert(p) ==
    /\ pc[p] = "goc_insert"
    /\ lock = NoProc
    /\ LET l == loc[p]
           newid == Len(users) + 1
           row == [id |-> newid, email |-> l.email, email_hash |-> l.email_hash,
                   created_at |-> CurrentTimestamp(now),
                   subscription_tier |-> "free",
                   stripe_customer_id |-> None,
                   subscription_expires |-> None]
       IN  IF UniqueViolation(users, l.email, l.email_hash)
           THEN \* sqlite3.IntegrityError
                /\ Return(p, Returned("get_or_create_user",
                              <<l.arg>>, <<None, Some("Email already exists")>>, <<>>))
                /\ UNCHANGED users
           ELSE /\ users' = Append(users, row)
                /\ Return(p, Returned("get_or_create_user", <<l.arg>>,
                              <<Some([id |-> newid, email |-> l.email,
                                      created_at |-> isoformat(datetime_now),
                                      subscription_tier |-> "free",
                                      stripe_customer_id |-> None,
                                      subscription_expires |-> None]), None>>, <<>>))
    /\ pc' = [pc EXCEPT ![p] = "idle"]
    /\ loc' = [loc EXCEPT ![p] = Idle]
    /\ UNCHANGED <<now, tz, req, questions, rate_limits, lock, work>>

---------------------------------------------------------------------------
(* log_question                                                            *)

\* The default of parameter cost, 0.03, in hundredths.
DefaultCost == 3

\* The call as it would be if the INSERT were never committed.
LogQuestion_NotCommitted(p, user_id) ==
    /\ pc[p] = "idle"
    /\ lock = NoProc
    /\ Return(p, Returned("log_question", <<user_id>>, None, <<>>))
    /\ UNCHANGED <<now, tz, req, users, questions, rate_limits, lock, work, pc, loc>>

\* Lines 133-144: one INSERT and its commit (one step, as above).  The
\* question text, the site and the article URL are stored and never read
\* by the store; the row keeps the columns the store reads.
LogQuestion(p, user_id) ==
    /\ pc[p] = "idle"
    /\ lock = NoProc
    /\ questions' = Append(questions,
           [id |-> Len(questions) + 1, user_id |-> user_id,
            asked_at |-> CurrentTimestamp(now), cost |-> DefaultCost])
    /\ Return(p, Returned("log_question", <<user_id>>, None, <<>>))
    /\ UNCHANGED <<now, tz, req, users, rate_limits, lock, work, pc, loc>>

---------------------------------------------------------------------------
(* can_ask_question                                                        *)

\* The lifetime quota of the free tier (line 186).
FreeLimit == 5
\* The calendar-month quota of the basic tier (line 191).
MonthlyLimit == 100

\* The answer as it would be if the free tier's test were > for >=.
CheckLimits_FreeOffByOne(tier, total_questions, monthly_questions) ==
    IF tier = "free"
    THEN IF total_questions > FreeLimit
         THEN <<FALSE, "free_limit_reached">>
         ELSE <<TRUE, "ok">>
    ELSE IF tier = "basic"
    THEN IF monthly_questions >= MonthlyLimit
         THEN <<FALSE, "monthly_limit_reached">>
         ELSE <<TRUE, "ok">>
    ELSE IF tier = "unlimited"
    THEN <<TRUE, "ok">>
    ELSE <<FALSE, "unknown_tier">>

\* The answer as it would be if unlimited fell under the monthly test.
CheckLimits_UnlimitedCapped(tier, total_questions, monthly_questions) ==
    IF tier = "free"
    THEN IF total_questions >= FreeLimit
         THEN <<FALSE, "free_limit_reached">>
         ELSE <<TRUE, "ok">>
    ELSE IF tier \in {"basic", "unlimited"}
    THEN IF monthly_questions >= MonthlyLimit
         THEN <<FALSE, "monthly_limit_reached">>
         ELSE <<TRUE, "ok">>
    ELSE <<FALSE, "unknown_tier">>

\* The answer as it would be if the free tier's denial had a reason of its own.
CheckLimits_OtherReason(tier, total_questions, monthly_questions) ==
    IF tier = "free"
    THEN IF total_questions >= FreeLimit
         THEN <<FALSE, "limit_reached">>
         ELSE <<TRUE, "ok">>
    ELSE IF tier = "basic"
    THEN IF monthly_questions >= MonthlyLimit
         THEN <<FALSE, "monthly_limit_reached">>
         ELSE <<TRUE, "ok">>
    ELSE IF tier = "unlimited"
    THEN <<TRUE, "ok">>
    ELSE <<FALSE, "unknown_tier">>

\* Lines 184-198: the answer for a tier and the two counts.
CheckLimits(tier, total_questions, monthly_questions) ==
    IF tier = "free"
    THEN IF total_questions >= FreeLimit
         THEN <<FALSE, "free_limit_reached">>
         ELSE <<TRUE, "ok">>
    ELSE IF tier = "basic"
    THEN IF monthly_questions >= MonthlyLimit
         THEN <<FALSE, "monthly_limit_reached">>
         ELSE <<TRUE, "ok">>
    ELSE IF tier = "unlimited"
    THEN <<TRUE, "ok">>
    ELSE <<FALSE, "unknown_tier">>

\* Lines 162-165: whether the subscription read from the row has run out.
SubscriptionExpired(tier, expires, at) ==
    /\ tier # "free"
    /\ expires # None
    /\ at > fromisoformat(expires)

\* The SELECT as it would be if a missing row were taken for a free user.
CanAskQuestion_SelectUser_MissingIsFree(p, user_id) ==
    /\ pc[p] = "idle"
    /\ LET HasId(r) == r.id = user_id
           result == FetchOne(View(p).users, HasId)
           tier == IF result = None THEN "free" ELSE result[1].subscription_tier
           expires == IF result = None THEN None ELSE result[1].subscription_expires
           expired == SubscriptionExpired(tier, expires, datetime_now)
       IN  /\ pc' = [pc EXCEPT ![p] =
                        IF expired THEN "caq_downgrade" ELSE "caq_total"]
           /\ loc' = [loc EXCEPT ![p] =
                        [op |-> "can_ask_question", user_id |-> user_id,
                         tier |-> IF expired THEN "free" ELSE tier,
                         stored |-> tier, expires |-> expires,
                         at |-> datetime_now, total_questions |-> 0]]
    /\ UNCHANGED <<now, tz, req, users, questions, rate_limits, lock, work, ret>>

\* Lines 151-165: the SELECT of the user's tier and expiry and the test of
\* the expiry against datetime.now().
CanAskQuestion_SelectUser(p, user_id) ==
    /\ pc[p] = "idle"
    /\ LET HasId(r) == r.id = user_id
           result == FetchOne(View(p).users, HasId)
       IN  IF result = None
           THEN /\ Return(p, Returned("can_ask_question", <<user_id>>,
                              <<FALSE, "User not found">>, <<>>))
                /\ UNCHANGED <<pc, loc>>
           ELSE LET tier == result[1].subscription_tier
                    expires == result[1].subscription_expires
                    expired == SubscriptionExpired(tier, expires, datetime_now)
                IN  /\ pc' = [pc EXCEPT ![p] =
                                 IF expired THEN "caq_downgrade" ELSE "caq_total"]
                    /\ loc' = [loc EXCEPT ![p] =
                                 [op |-> "can_ask_question", user_id |-> user_id,
                                  tier |-> IF expired THEN "free" ELSE tier,
                                  stored |-> tier, expires |-> expires,
                                  at |-> datetime_now, total_questions |-> 0]]
                    /\ UNCHANGED ret
    /\ UNCHANGED <<now, tz, req, users, questions, rate_limits, lock, work>>

\* The downgrade as it would be if the UPDATE were not made.
SetTier_NotPersisted(t, user_id, tier) == t

\* The users table after UPDATE users SET subscription_tier = tier WHERE id = user_id.
SetTier(t, user_id, tier) ==
    [i \in 1..Len(t) |-> IF t[i].id = user_id
                         THEN [t[i] EXCEPT !.subscription_tier = tier]
                         ELSE t[i]]

\* Lines 166-169: the downgrade to free, an UPDATE and its commit.
CanAskQuestion_Downgrade(p) ==
    /\ pc[p] = "caq_downgrade"
    /\ lock = NoProc
    /\ users' = SetTier(users, loc[p].user_id, "free")
    /\ pc' = [pc EXCEPT ![p] = "caq_total"]
    /\ UNCHANGED <<now, tz, req, questions, rate_limits, lock, work, loc, ret>>

\* Lines 171-173: the lifetime count.
CanAskQuestion_CountTotal(p) ==
    /\ pc[p] = "caq_total"
    /\ LET Mine(q) == q.user_id = loc[p].user_id
       IN  loc' = [loc EXCEPT ![p].total_questions = CountRows(View(p).questions, Mine)]
    /\ pc' = [pc EXCEPT ![p] = "caq_monthly"]
    /\ UNCHANGED <<now, tz, req, users, questions, rate_limits, lock, work, ret>>

\* The monthly count's test as it would be without the start of the month.
AskedThisMonth_AnyMonth(q, user_id, t) == q.user_id = user_id

\* WHERE user_id = ? AND asked_at >= date('now', 'start of month')
AskedThisMonth(q, user_id, t) ==
    q.user_id = user_id /\ ~TextLess(q.asked_at, StartOfMonth(t))

\* Lines 175-198: the count since the start of the month, and the answer.
CanAskQuestion_CountMonthly(p) ==
    /\ pc[p] = "caq_monthly"
    /\ LET l == loc[p]
           ThisMonth(q) == AskedThisMonth(q, l.user_id, now)
           monthly_questions == CountRows(View(p).questions, ThisMonth)
       IN  Return(p, Returned("can_ask_question", <<l.user_id>>,
                      CheckLimits(l.tier, l.total_questions, monthly_questions),
                      [stored |-> l.stored]))
    /\ pc' = [pc EXCEPT ![p] = "idle"]
    /\ loc' = [loc EXCEPT ![p] = Idle]
    /\ UNCHANGED <<now, tz, req, users, questions, rate_limits, lock, work>>

---------------------------------------------------------------------------
(* upgrade_user                                                            *)

\* timedelta(days=30*months): the days one month of subscription lasts.
DaysPerMonth == 30

\* Line 208: the expiry written by an upgrade made at local time t.
ExpiryFor(t, months) == isoformat(t + DaysPerMonth * months * SecondsPerDay)

\* The UPDATE as it would be without its WHERE clause.
SetSubscription_EveryUser(t, user_id, tier, stripe_customer_id, expires) ==
    [i \in 1..Len(t) |-> [t[i] EXCEPT !.subscription_tier = tier,
                                      !.stripe_customer_id = stripe_customer_id,
                                      !.subscription_expires = expires]]

\* The UPDATE as it would be if it left subscription_expires out.
SetSubscription_ExpiryLeftOut(t, user_id, tier, stripe_customer_id, expires) ==
    [i \in 1..Len(t) |-> IF t[i].id = user_id
                         THEN [t[i] EXCEPT !.subscription_tier = tier,
                                           !.stripe_customer_id = stripe_customer_id]
                         ELSE t[i]]

\* The UPDATE as it would be if it left subscription_tier out.
SetSubscription_TierLeftOut(t, user_id, tier, stripe_customer_id, expires) ==
    [i \in 1..Len(t) |-> IF t[i].id = user_id
                         THEN [t[i] EXCEPT !.stripe_customer_id = stripe_customer_id,
                                           !.subscription_expires = expires]
                         ELSE t[i]]

\* The UPDATE as it would be if a running subscription's later expiry were kept.
SetSubscription_KeepsLaterExpiry(t, user_id, tier, stripe_customer_id, expires) ==
    [i \in 1..Len(t) |->
        IF t[i].id = user_id
        THEN [t[i] EXCEPT !.subscription_tier = tier,
                          !.stripe_customer_id = stripe_customer_id,
                          !.subscription_expires =
                              IF @ # None /\ fromisoformat(@) > fromisoformat(expires)
                              THEN @ ELSE expires]
        ELSE t[i]]

\* The users table after the UPDATE of lines 210-214.
SetSubscription(t, user_id, tier, stripe_customer_id, expires) ==
    [i \in 1..Len(t) |-> IF t[i].id = user_id
                         THEN [t[i] EXCEPT !.subscription_tier = tier,
                                           !.stripe_customer_id = stripe_customer_id,
                                           !.subscription_expires = expires]
                         ELSE t[i]]

\* The tier and the expiry stored for user_id, None if there is no such row.
Subscription(t, user_id) ==
    LET HasId(r) == r.id = user_id
        row == FetchOne(t, HasId)
    IN  IF row = None THEN None
        ELSE Some(<<row[1].subscription_tier, row[1].subscription_expires>>)

\* The test as it would be if every tier string were let through.
ValidTier_AnyString(tier) == TRUE

\* Line 202: the tiers an upgrade may set.
ValidTier(tier) == tier \in {"basic", "unlimited"}

\* Lines 200-218.
UpgradeUser(p, user_id, tier, stripe_customer_id, months) ==
    /\ pc[p] = "idle"
    /\ IF ~ValidTier(tier)
       THEN /\ Return(p, Returned("upgrade_user",
                          <<user_id, tier, stripe_customer_id, months>>,
                          <<FALSE, "Invalid tier">>, <<>>))
            /\ UNCHANGED users
       ELSE /\ lock = NoProc
            /\ users' = SetSubscription(users, user_id, tier, stripe_customer_id,
                                        ExpiryFor(datetime_now, months))
            /\ Return(p, Returned("upgrade_user",
                          <<user_id, tier, stripe_customer_id, months>>,
                          <<TRUE, "User upgraded">>,
                          [before |-> Subscription(users, user_id)]))
    /\ UNCHANGED <<now, tz, req, questions, rate_limits, lock, work, pc, loc>>

---------------------------------------------------------------------------
(* check_rate_limit                                                        *)

\* timedelta(minutes=1), in seconds (line 226).
WindowSeconds == 60
\* The default of parameter max_per_minute (line 220).
DefaultMaxPerMinute == 10

EndpointInputs == {"/api/chat/a"}
MaxPerMinuteInputs == {2}

\* Lines 226-230: the rows the sweep keeps.  window_start holds the text
\* CURRENT_TIMESTAMP wrote, one_minute_ago the text isoformat() made, and
\* SQLite compares the two as text.
Sweep(t, one_minute_ago) ==
    LET Kept(r) == ~TextLess(r.window_start, one_minute_ago)
    IN  SelectSeq(t, Kept)

\* Where a call stands in its thread's run of calls, for the properties
\* below.  A run is a sequence of successive check_rate_limit calls of one
\* thread with the same arguments, each made less than a minute after the
\* first: first is the time of the run's first call, n the call's number
\* in the run (counted up to MaxRun), and fresh tells that the run's first
\* call found no row stored for the pair; allowed is the number of the
\* run's calls that returned (True, 'ok') (counted up to MaxRun).
RunOf(p, user_id, endpoint, max_per_minute) ==
    IF /\ ret[p].op = "check_rate_limit"
       /\ ret[p].args = <<user_id, endpoint, max_per_minute>>
       /\ now - ret[p].pre.first < WindowSeconds
    THEN [first |-> ret[p].pre.first,
          n |-> IF ret[p].pre.n < MaxRun THEN ret[p].pre.n + 1 ELSE MaxRun,
          fresh |-> ret[p].pre.fresh, allowed |-> ret[p].pre.allowed]
    ELSE [first |-> now, n |-> 1, allowed |-> 0,
          fresh |-> ~\E r \in Rows(rate_limits) :
                        r.user_id = user_id /\ r.endpoint = endpoint]

\* Lines 225-230: the DELETE of the stale rows, which takes the write lock
\* and opens the transaction the rest of the method runs in.
CheckRateLimit_Sweep(p, user_id, endpoint, max_per_minute) ==
    /\ pc[p] = "idle"
    /\ lock = NoProc
    /\ LET one_minute_ago == isoformat(datetime_now - WindowSeconds)
       IN  work' = [Committed EXCEPT !.rate_limits = Sweep(rate_limits, one_minute_ago)]
    /\ lock' = p
    /\ pc' = [pc EXCEPT ![p] = "crl_select"]
    /\ loc' = [loc EXCEPT ![p] = [op |-> "check_rate_limit", user_id |-> user_id,
                  endpoint |-> endpoint, max_per_minute |-> max_per_minute,
                  result |-> None, at |-> now,
                  run |-> RunOf(p, user_id, endpoint, max_per_minute)]]
    /\ UNCHANGED <<now, tz, req, users, questions, rate_limits, ret>>

\* The SELECT as it would be if it matched the wrong column.
CheckRateLimit_Select_WrongColumn(p) ==
    /\ pc[p] = "crl_select"
    /\ LET l == loc[p]
           Pair(r) == r.request_count = l.user_id /\ r.endpoint = l.endpoint
       IN  loc' = [loc EXCEPT ![p].result = FetchOne(View(p).rate_limits, Pair)]
    /\ pc' = [pc EXCEPT ![p] = "crl_decide"]
    /\ UNCHANGED <<now, tz, req, users, questions, rate_limits, lock, work, ret>>

\* Lines 232-238: the SELECT of the pair's row.
CheckRateLimit_Select(p) ==
    /\ pc[p] = "crl_select"
    /\ LET l == loc[p]
           Pair(r) == r.user_id = l.user_id /\ r.endpoint = l.endpoint
       IN  loc' = [loc EXCEPT ![p].result = FetchOne(View(p).rate_limits, Pair)]
    /\ pc' = [pc EXCEPT ![p] = "crl_decide"]
    /\ UNCHANGED <<now, tz, req, users, questions, rate_limits, lock, work, ret>>

\* conn.commit() by the holder of the write lock: its view becomes the
\* committed tables.
Commit(view) ==
    /\ users' = view.users
    /\ questions' = view.questions
    /\ rate_limits' = view.rate_limits
    /\ lock' = NoProc
    /\ work' = NoRows

\* conn.close() without a commit: the transaction is rolled back.
CloseUncommitted ==
    /\ lock' = NoProc
    /\ work' = NoRows
    /\ UNCHANGED <<users, questions, rate_limits>>

\* The UPDATE as it would be if the increment were lost.
Increment_Lost(t, user_id, endpoint) == t

\* The table after UPDATE rate_limits SET request_count = request_count + 1
\* WHERE user_id = ? AND endpoint = ?
Increment(t, user_id, endpoint) ==
    [i \in 1..Len(t) |-> IF t[i].user_id = user_id /\ t[i].endpoint = endpoint
                         THEN [t[i] EXCEPT !.request_count = @ + 1]
                         ELSE t[i]]

\* Lines 240-265: the first request's INSERT, the denial, or the increment.
CheckRateLimit_Decide(p) ==
    /\ pc[p] = "crl_decide"
    /\ lock = p
    /\ LET l == loc[p]
           Done(val) == Return(p, Returned("check_rate_limit",
                            <<l.user_id, l.endpoint, l.max_per_minute>>, val,
                            [l.run EXCEPT !.allowed =
                                IF val[1] /\ @ < MaxRun THEN @ + 1 ELSE @]))
       IN  IF l.result = None
           THEN /\ Commit([work EXCEPT !.rate_limits = Append(@,
                       [user_id |-> l.user_id, endpoint |-> l.endpoint,
                        request_count |-> 1,
                        window_start |-> CurrentTimestamp(now)])])
                /\ Done(<<TRUE, "ok">>)
           ELSE IF l.result[1].request_count >= l.max_per_minute
           THEN /\ CloseUncommitted
                /\ Done(<<FALSE, "rate_limit_exceeded">>)
           ELSE /\ Commit([work EXCEPT !.rate_limits =
                               Increment(@, l.user_id, l.endpoint)])
                /\ Done(<<TRUE, "ok">>)
    /\ pc' = [pc EXCEPT ![p] = "idle"]
    /\ loc' = [loc EXCEPT ![p] = Idle]
    /\ UNCHANGED <<now, tz, req>>

---------------------------------------------------------------------------
(* get_user_stats                                                          *)

\* The limits get_user_stats subtracts the counts from (lines 298, 300).
StatsFreeLimit == 3
StatsMonthlyLimit == 100

\* remaining_questions: a number, or float('inf').
Finite(n) == [inf |-> FALSE, n |-> n]
Infinity == [inf |-> TRUE, n |-> 0]

\* Python's max(0, n).
Max0(n) == IF n > 0 THEN n ELSE 0

\* Lines 295-302: the remaining questions of a tier.
Remaining(tier, total_questions, monthly_questions) ==
    IF tier = "free" THEN Finite(Max0(StatsFreeLimit - total_questions))
    ELSE IF tier = "basic" THEN Finite(Max0(StatsMonthlyLimit - monthly_questions))
    ELSE Infinity

RECURSIVE SumCost(_, _, _)
\* SELECT SUM(cost) FROM questions WHERE user_id = ?, over the first n rows
\* of t; NULL, which "or 0" turns into 0, when no row matches.
SumCost(t, user_id, n) ==
    IF n = 0 THEN 0
    ELSE SumCost(t, user_id, n - 1) + (IF t[n].user_id = user_id THEN t[n].cost ELSE 0)

\* Lines 269-278: the SELECT of the user's row; None if there is none.
GetUserStats_SelectUser(p, user_id) ==
    /\ pc[p] = "idle"
    /\ LET HasId(r) == r.id = user_id
           user == FetchOne(View(p).users, HasId)
       IN  IF user = None
           THEN /\ Return(p, Returned("get_user_stats", <<user_id>>, None, <<>>))
                /\ UNCHANGED <<pc, loc>>
           ELSE /\ pc' = [pc EXCEPT ![p] = "gus_total"]
                /\ loc' = [loc EXCEPT ![p] =
                             [op |-> "get_user_stats", user_id |-> user_id,
                              user |-> user[1], total_questions |-> 0,
                              monthly_questions |-> 0]]
                /\ UNCHANGED ret
    /\ UNCHANGED <<now, tz, req, users, questions, rate_limits, lock, work>>

\* Lines 281-282: the lifetime count.
GetUserStats_CountTotal(p) ==
    /\ pc[p] = "gus_total"
    /\ LET Mine(q) == q.user_id = loc[p].user_id
       IN  loc' = [loc EXCEPT ![p].total_questions = CountRows(View(p).questions, Mine)]
    /\ pc' = [pc EXCEPT ![p] = "gus_monthly"]
    /\ UNCHANGED <<now, tz, req, users, questions, rate_limits, lock, work, ret>>

\* Lines 284-288: the count since the start of the month.
GetUserStats_CountMonthly(p) ==
    /\ pc[p] = "gus_monthly"
    /\ LET ThisMonth(q) == AskedThisMonth(q, loc[p].user_id, now)
       IN  loc' = [loc EXCEPT ![p].monthly_questions =
                                  CountRows(View(p).questions, ThisMonth)]
    /\ pc' = [pc EXCEPT ![p] = "gus_cost"]
    /\ UNCHANGED <<now, tz, req, users, questions, rate_limits, lock, work, ret>>

\* The dictionary of lines 304-313 (an optional value: the method returns
\* it or None).
StatsDict(user, total_questions, monthly_questions, total_cost) ==
    Some([email |-> user.email, tier |-> user.subscription_tier,
          total_questions |-> total_questions,
          monthly_questions |-> monthly_questions,
          remaining_questions |-> Remaining(user.subscription_tier,
                                            total_questions, monthly_questions),
          total_cost |-> total_cost,
          created_at |-> user.created_at,
          subscription_expires |-> user.subscription_expires])

\* The last step as it would be if it made can_ask_question's downgrade.
GetUserStats_SumCost_Downgrades(p) ==
    /\ pc[p] = "gus_cost"
    /\ lock = NoProc
    /\ LET l == loc[p]
           q == View(p).questions
       IN  /\ Return(p, Returned("get_user_stats", <<l.user_id>>,
                         StatsDict(l.user, l.total_questions, l.monthly_questions,
                                   SumCost(q, l.user_id, Len(q))), <<>>))
           /\ users' = IF SubscriptionExpired(l.user.subscription_tier,
                                              l.user.subscription_expires, datetime_now)
                       THEN SetTier(users, l.user_id, "free")
                       ELSE users
    /\ pc' = [pc EXCEPT ![p] = "idle"]
    /\ loc' = [loc EXCEPT ![p] = Idle]
    /\ UNCHANGED <<now, tz, req, questions, rate_limits, lock, work>>

\* Lines 290-313: the sum of the costs, and the dictionary returned.
GetUserStats_SumCost(p) ==
    /\ pc[p] = "gus_cost"
    /\ LET l == loc[p]
           q == View(p).questions
       IN  Return(p, Returned("get_user_stats", <<l.user_id>>,
                      StatsDict(l.user, l.total_questions, l.monthly_questions,
                                SumCost(q, l.user_id, Len(q))), <<>>))
    /\ pc' = [pc EXCEPT ![p] = "idle"]
    /\ loc' = [loc EXCEPT ![p] = Idle]
    /\ UNCHANGED <<now, tz, req, users, questions, rate_limits, lock, work>>

---------------------------------------------------------------------------
(* The chat handlers, src/agent_api_protected.py: handle_protected_chat    *)
(* and handle_boomer_chat.  Both make the same calls of the store in the   *)
(* same order; they differ in when content is generated (on a message      *)
(* that needs_content_creation finds a keyword in, or on every message).   *)
(* A handler's step is either a call of the store, made by the store's     *)
(* own actions, or the handler's code between two calls, which reads what  *)
(* the call returned (ret) into the handler's variables (req).             *)

\* f'/api/chat/{site_name}'
ChatEndpoint == "/api/chat/a"

\* Messages: none, and one that is not blank.
NoMessage == <<>>
SomeMessage == <<"h", "i">>

\* The test the handlers send the welcome email on (line 249):
\* user.get('is_new', False).
WelcomeEmailDue(user) == DictGet(user, "is_new", FALSE)

\* The handler has returned a response; the thread is free for a request.
Respond(p, response) ==
    req' = [req EXCEPT ![p].at = "start", ![p].response = response]

\* The handler's code changes no table and makes no call.
HandlerOnly == UNCHANGED <<now, tz, users, questions, rate_limits, lock, work, pc, loc>>

\* Lines 225-238: a request arrives; the message and the email are
\* stripped and must not be empty.  No call of this request has returned.
Handler_Start(p, email, message) ==
    /\ req[p].at = "start"
    /\ pc[p] = "idle"
    /\ IF Strip(message) = <<>>
       THEN /\ req' = [req EXCEPT ![p] = [NoRequest EXCEPT !.response = "message_required"]]
            /\ UNCHANGED ret
       ELSE IF Strip(email) = <<>>
       THEN /\ req' = [req EXCEPT ![p] = [NoRequest EXCEPT !.response = "email_required"]]
            /\ UNCHANGED ret
       ELSE /\ req' = [req EXCEPT ![p] = [NoRequest EXCEPT !.at = "get_user",
                                                          !.email = Strip(email)]]
            /\ ret' = [ret EXCEPT ![p] = NoCall]
    /\ HandlerOnly

\* Line 241: user, error = user_manager.get_or_create_user(user_email)
Handler_GetUser(p) ==
    /\ req[p].at = "get_user"
    /\ ret[p].op = "none"
    /\ GetOrCreateUser_Lookup(p, req[p].email)

\* Lines 242-255: no user, no service; the welcome email for a new user.
Handler_GotUser(p) ==
    /\ req[p].at = "get_user"
    /\ pc[p] = "idle"
    /\ ret[p].op = "get_or_create_user"
    /\ IF ret[p].val[1] = None
       THEN Respond(p, "invalid_email")
       ELSE req' = [req EXCEPT ![p].at = "rate",
                               ![p].user_id = ret[p].val[1][1].id,
                               ![p].welcomed = WelcomeEmailDue(ret[p].val[1][1])]
    /\ HandlerOnly
    /\ UNCHANGED ret

\* Line 258: user_manager.check_rate_limit(user['id'], f'/api/chat/{site_name}')
Handler_CheckRate(p) ==
    /\ req[p].at = "rate"
    /\ ret[p].op = "get_or_create_user"
    /\ CheckRateLimit_Sweep(p, req[p].user_id, ChatEndpoint, DefaultMaxPerMinute)

\* The lines as they would be if a rate-limit denial did not end the request.
Handler_RateChecked_DenialIgnored(p) ==
    /\ req[p].at = "rate"
    /\ pc[p] = "idle"
    /\ ret[p].op = "check_rate_limit"
    /\ req' = [req EXCEPT ![p].at = "ask", ![p].can_proceed = ret[p].val[1]]
    /\ HandlerOnly
    /\ UNCHANGED ret

\* Lines 259-264: a rate-limit denial ends the request with status 429.
Handler_RateChecked(p) ==
    /\ req[p].at = "rate"
    /\ pc[p] = "idle"
    /\ ret[p].op = "check_rate_limit"
    /\ IF ~ret[p].val[1]
       THEN Respond(p, "rate_limited")
       ELSE req' = [req EXCEPT ![p].at = "ask", ![p].can_proceed = TRUE]
    /\ HandlerOnly
    /\ UNCHANGED ret

\* Line 267: can_ask, reason = user_manager.can_ask_question(user['id'])
Handler_CanAsk(p) ==
    /\ req[p].at = "ask"
    /\ ret[p].op = "check_rate_limit"
    /\ CanAskQuestion_SelectUser(p, req[p].user_id)

\* Line 268: if not can_ask, the statistics are fetched first.
Handler_Asked(p) ==
    /\ req[p].at = "ask"
    /\ pc[p] = "idle"
    /\ ret[p].op = "can_ask_question"
    /\ IF ret[p].val[1]
       THEN req' = [req EXCEPT ![p].at = "content", ![p].can_ask = TRUE]
       ELSE req' = [req EXCEPT ![p].at = "stats", ![p].reason = ret[p].val[2]]
    /\ HandlerOnly
    /\ UNCHANGED ret

\* Line 269: stats = user_manager.get_user_stats(user['id'])
Handler_DeniedStats(p) ==
    /\ req[p].at = "stats"
    /\ ret[p].op = "can_ask_question"
    /\ GetUserStats_SelectUser(p, req[p].user_id)

\* Lines 271-307: the two reasons the handler answers; with any other
\* reason the if statement ends and the handler goes on.
Handler_Denied(p) ==
    /\ req[p].at = "stats"
    /\ pc[p] = "idle"
    /\ ret[p].op = "get_user_stats"
    /\ IF req[p].reason = "free_limit_reached"
       THEN Respond(p, "free_limit_reached")
       ELSE IF req[p].reason = "monthly_limit_reached"
       THEN Respond(p, "monthly_limit_reached")
       ELSE req' = [req EXCEPT ![p].at = "content"]
    /\ HandlerOnly
    /\ UNCHANGED ret

\* Lines 309-313 and 338-350 (handle_protected_chat), line 424
\* (handle_boomer_chat): the content is generated, or the message gets the
\* plain answer; creates tells which.
Handler_Content(p, creates) ==
    /\ req[p].at = "content"
    /\ pc[p] = "idle"
    /\ IF creates
       THEN req' = [req EXCEPT ![p].at = "log", ![p].generated = TRUE]
       ELSE Respond(p, "chat")
    /\ HandlerOnly
    /\ UNCHANGED ret

\* Lines 315-322: user_manager.log_question(user['id'], ...)
Handler_Log(p) ==
    /\ req[p].at = "log"
    /\ ret[p].op \in {"can_ask_question", "get_user_stats"}
    /\ LogQuestion(p, req[p].user_id)

\* The question is logged; the statistics come next.
Handler_Logged(p) ==
    /\ req[p].at = "log"
    /\ pc[p] = "idle"
    /\ ret[p].op = "log_question"
    /\ req' = [req EXCEPT ![p].at = "final"]
    /\ HandlerOnly
    /\ UNCHANGED ret

\* Line 325: stats = user_manager.get_user_stats(user['id'])
Handler_FinalStats(p) ==
    /\ req[p].at = "final"
    /\ ret[p].op = "log_question"
    /\ GetUserStats_SelectUser(p, req[p].user_id)

\* Lines 327-337: the answer.
Handler_Answered(p) ==
    /\ req[p].at = "final"
    /\ pc[p] = "idle"
    /\ ret[p].op = "get_user_stats"
    /\ Respond(p, "answered")
    /\ HandlerOnly
    /\ UNCHANGED ret

---------------------------------------------------------------------------
(* The clock.                                                              *)

\* Time passes to midnight UTC of a later sampled day.
AdvanceClock(d) ==
    /\ d * SecondsPerDay > now
    /\ now' = d * SecondsPerDay
    /\ UNCHANGED <<tz, req, users, questions, rate_limits, lock, work, pc, loc, ret>>

\* Time passes to a later sampled time of day, t seconds after 1 January
\* 00:00:00 UTC.
AdvanceClockTo(t) ==
    /\ t > now
    /\ now' = t
    /\ UNCHANGED <<tz, req, users, questions, rate_limits, lock, work, pc, loc, ret>>

---------------------------------------------------------------------------
(* The calls a request thread makes, over the inputs given.                *)

\* The ids of the committed users.
UserIds == {users[i].id : i \in 1..Len(users)}

\* Whether table rate_limits has room for the row a call may insert.
WindowRoom(user_id, endpoint) ==
    \/ Len(rate_limits) < MaxWindows
    \/ \E r \in Rows(rate_limits) : r.user_id = user_id /\ r.endpoint = endpoint

GetOrCreateUser(p, emails) ==
    \/ \E email \in emails : GetOrCreateUser_Lookup(p, email)
    \/ GetOrCreateUser_Insert(p)

CanAskQuestion(p, ids) ==
    \/ \E u \in ids : CanAskQuestion_SelectUser(p, u)
    \/ CanAskQuestion_Downgrade(p)
    \/ CanAskQuestion_CountTotal(p)
    \/ CanAskQuestion_CountMonthly(p)

GetUserStats(p, ids) ==
    \/ \E u \in ids : GetUserStats_SelectUser(p, u)
    \/ GetUserStats_CountTotal(p)
    \/ GetUserStats_CountMonthly(p)
    \/ GetUserStats_SumCost(p)

CheckRateLimit(p, ids) ==
    \/ \E u \in ids, e \in EndpointInputs, m \in MaxPerMinuteInputs :
          WindowRoom(u, e) /\ CheckRateLimit_Sweep(p, u, e, m)
    \/ CheckRateLimit_Select(p)
    \/ CheckRateLimit_Decide(p)

\* A chat request of thread p for a user who has bought no subscription,
\* from its arrival to the response: the handler's steps and the steps of
\* the calls it makes.
FreeChatRequest(p, emails, messages, content) ==
    \/ \E email \in emails, message \in messages : Handler_Start(p, email, message)
    \/ Handler_GetUser(p)
    \/ GetOrCreateUser_Insert(p)
    \/ Handler_GotUser(p)
    \/ Handler_CheckRate(p)
    \/ CheckRateLimit_Select(p)
    \/ CheckRateLimit_Decide(p)
    \/ Handler_RateChecked(p)
    \/ Handler_CanAsk(p)
    \/ CanAskQuestion_CountTotal(p)
    \/ CanAskQuestion_CountMonthly(p)
    \/ Handler_Asked(p)
    \/ Handler_DeniedStats(p)
    \/ Handler_Denied(p)
    \/ \E creates \in content : Handler_Content(p, creates)
    \/ Handler_Log(p)
    \/ Handler_Logged(p)
    \/ Handler_FinalStats(p)
    \/ GetUserStats_CountTotal(p)
    \/ GetUserStats_CountMonthly(p)
    \/ GetUserStats_SumCost(p)
    \/ Handler_Answered(p)

\* A chat request of thread p: for a user whose subscription has run out
\* can_ask_question takes its downgrade step as well.
ChatRequest(p, emails, messages, content) ==
    \/ FreeChatRequest(p, emails, messages, content)
    \/ CanAskQuestion_Downgrade(p)

---------------------------------------------------------------------------
(* The whole store, used by one request thread at a time.                  *)

Next ==
    \/ GetOrCreateUser(1, {EmailA, EmailNewline, EmailNoTld, NotAnEmail})
    \/ \E u \in UserIds : Len(questions) < StoreQuestions /\ LogQuestion(1, u)
    \/ CanAskQuestion(1, 1..1)
    \/ \E u \in 1..2, t \in TierInputs, c \in CustomerIdInputs, m \in 1..MaxMonths :
          UpgradeUser(1, u, t, c, m)
    \/ CheckRateLimit(1, 1..1)
    \/ GetUserStats(1, 1..2)
    \/ AdvanceClock(32)

Spec == Init /\ [][Next]_vars

---------------------------------------------------------------------------
(* Identity and subscription: one thread, two users.                       *)

NextUsers ==
    \/ GetOrCreateUser(1, EmailInputs)
    \/ CanAskQuestion(1, 1..3)
    \/ \E u \in 1..2, t \in TierInputs, c \in CustomerIdInputs, m \in 1..MaxMonths :
          UpgradeUser(1, u, t, c, m)
    \/ AdvanceClock(32)

SpecUsers == Init /\ [][NextUsers]_vars

---------------------------------------------------------------------------
(* The quotas of one user: one thread, up to QuotaQuestions questions.     *)

NextQuota ==
    \/ GetOrCreateUser(1, {EmailA})
    \/ \E u \in UserIds : Len(questions) < QuotaQuestions /\ LogQuestion(1, u)
    \/ CanAskQuestion(1, 1..2)
    \/ \E u \in 1..2, t \in TierInputs, c \in CustomerIdInputs, m \in 1..MaxMonths :
          UpgradeUser(1, u, t, c, m)
    \/ \E d \in SampleDays : AdvanceClock(d)

SpecQuota == Init /\ [][NextQuota]_vars

---------------------------------------------------------------------------
(* The statistics of one user next to the quotas: one thread, up to        *)
(* QuotaQuestions questions.                                               *)

NextStats ==
    \/ GetOrCreateUser(1, {EmailA})
    \/ \E u \in UserIds : Len(questions) < QuotaQuestions /\ LogQuestion(1, u)
    \/ CanAskQuestion(1, 1..1)
    \/ GetUserStats(1, 1..1)
    \/ \E t \in {"basic", "unlimited"}, c \in CustomerIdInputs :
          UpgradeUser(1, 1, t, c, 1)
    \/ AdvanceClock(32)

SpecStats == Init /\ [][NextStats]_vars

---------------------------------------------------------------------------
(* The quota and the rate limit of one user: one thread, up to             *)
(* QuotaQuestions questions, upgrades to either paid tier.                 *)

NextCodes ==
    \/ GetOrCreateUser(1, {EmailA})
    \/ \E u \in UserIds : Len(questions) < QuotaQuestions /\ LogQuestion(1, u)
    \/ CanAskQuestion(1, 1..1)
    \/ \E t \in {"basic", "unlimited"}, c \in CustomerIdInputs :
          UpgradeUser(1, 1, t, c, 1)
    \/ CheckRateLimit(1, 1..1)
    \/ AdvanceClock(32)

SpecCodes == Init /\ [][NextCodes]_vars

---------------------------------------------------------------------------
(* One user under emails with whitespace around them: one thread.          *)

NextPadded ==
    \/ GetOrCreateUser(1, PaddedEmailInputs)
    \/ CanAskQuestion(1, 1..2)
    \/ \E t \in TierInputs, c \in CustomerIdInputs : UpgradeUser(1, 1, t, c, 1)
    \/ AdvanceClock(32)

SpecPadded == Init /\ [][NextPadded]_vars

---------------------------------------------------------------------------
(* The monthly quota: one thread, one user, two calendar months.  The      *)
(* clock passes from January to February when no question or a full        *)
(* month's quota of questions has been logged.                             *)

NextMonthly ==
    \/ GetOrCreateUser(1, {EmailA})
    \/ \E u \in UserIds : Len(questions) < MonthlyQuestions /\ LogQuestion(1, u)
    \/ CanAskQuestion(1, 1..1)
    \/ \E t \in {"basic", "unlimited"}, c \in CustomerIdInputs, m \in 1..MaxMonths :
          UpgradeUser(1, 1, t, c, m)
    \/ /\ Len(questions) \in {0, MonthlyLimit, MonthlyLimit + 1}
       /\ AdvanceClock(32)

SpecMonthly == Init /\ [][NextMonthly]_vars

---------------------------------------------------------------------------
(* Concurrent request threads on the users table.                          *)

NextRace ==
    \/ \E p \in Procs : GetOrCreateUser(p, {EmailA, EmailAUpper, EmailB})
    \/ CanAskQuestion(2, 1..1)
    \/ \E c \in CustomerIdInputs : UpgradeUser(1, 1, "basic", c, 1)
    \/ AdvanceClock(32)

SpecRace == Init /\ [][NextRace]_vars

---------------------------------------------------------------------------
(* The rate limiter: one thread, two users, on a server whose local time   *)
(* is UTC (SpecRate) and on one whose local time is behind UTC             *)
(* (SpecRateWest).                                                         *)

NextRate ==
    \/ CheckRateLimit(1, 1..2)
    \/ \E t \in RateSampleTimes : AdvanceClockTo(t)

SpecRate == Init /\ [][NextRate]_vars

NextRateWest ==
    \/ CheckRateLimit(1, 1..2)
    \/ \E t \in RateSampleTimes : AdvanceClockTo(t)

SpecRateWest == InitWest /\ [][NextRateWest]_vars

---------------------------------------------------------------------------
(* The rate limiter under concurrent request threads, for one pair.        *)

NextRateRace ==
    \/ \E p \in Procs : CheckRateLimit(p, 1..1)
    \/ \E t \in RateSampleTimes : AdvanceClockTo(t)

SpecRateRace == Init /\ [][NextRateRace]_vars

---------------------------------------------------------------------------
(* Chat requests of one free user handled by two threads at a time.        *)

NextChatRace ==
    \E p \in Procs : FreeChatRequest(p, {EmailA}, {SomeMessage}, BOOLEAN)

SpecChatRace == Init /\ [][NextChatRace]_vars

---------------------------------------------------------------------------
(* Chat requests of one user handled one at a time, while the payment      *)
(* webhook upgrades the user and the subscription runs out.                *)

\* The time the clock is sampled at after the start on 2 January 00:00:00:
\* half a minute after the expiry of a subscription of one month bought at
\* the start.
ChatSampleTimes == {(1 + DaysPerMonth) * SecondsPerDay + 30}

NextChat ==
    \/ ChatRequest(1, {EmailA, NotAnEmail, <<>>}, {NoMessage, SomeMessage},
                   IF Len(questions) < QuotaQuestions THEN BOOLEAN ELSE {FALSE})
    \/ \E c \in CustomerIdInputs : UpgradeUser(2, 1, "basic", c, 1)
    \/ \E t \in ChatSampleTimes : AdvanceClockTo(t)

SpecChat == Init /\ [][NextChat]_vars

---------------------------------------------------------------------------
(* Vocabulary of the properties.                                           *)

\* Two addresses that differ at most in the case of their letters.
CaseVariants(e1, e2) ==
    /\ Len(e1) = Len(e2)
    /\ \A i \in 1..Len(e1) :
          \/ e1[i] = e2[i]
          \/ \E k \in 1..26 : {e1[i], e2[i]} = {UpperAlpha[k], LowerAlpha[k]}

\* The users rows (by position) stored for an address, whatever its case.
RowsFor(t, email) == {i \in 1..Len(t) : CaseVariants(t[i].email, email)}

\* A finished get_or_create_user call, and one that returned a user.
IsGetOrCreate(r) == r.op = "get_or_create_user"
ReturnedUser(r) == r.val[1] # None /\ r.val[2] = None

---------------------------------------------------------------------------
(* C1: for a valid email, two successive get_or_create_user calls of a     *)
(* thread with that email, or with variants of it that differ only in       *)
(* letter case, both return a user and no error, both the same id, and     *)
(* afterwards exactly one users row is stored for that email.  Checked     *)
(* with one thread: ret[p] is the earlier call, ret'[p] the later one.     *)
C1_SuccessiveCallsSameUser ==
    [][\A p \in Procs :
         ( /\ IsGetOrCreate(ret[p]) /\ IsGetOrCreate(ret'[p])
           /\ validate_email(ret[p].args[1])
           /\ CaseVariants(ret[p].args[1], ret'[p].args[1]) )
         => /\ ReturnedUser(ret[p]) /\ ReturnedUser(ret'[p])
            /\ ret[p].val[1][1].id = ret'[p].val[1][1].id
            /\ Cardinality(RowsFor(users', ret[p].args[1])) = 1
            /\ \A i \in RowsFor(users', ret[p].args[1]) :
                  users'[i].id = ret'[p].val[1][1].id]_vars

\* A call with the upper-case variant has returned the row stored for the
\* lower-case address: the dictionary carries the row's own created_at,
\* which only a call that found the row returns.
C1_Witness ==
    /\ IsGetOrCreate(ret[1])
    /\ ret[1].args[1] = EmailAUpper
    /\ ReturnedUser(ret[1])
    /\ \E i \in 1..Len(users) :
          /\ users[i].email = EmailA
          /\ ret[1].val[1][1].id = users[i].id
          /\ ret[1].val[1][1].created_at = users[i].created_at

---------------------------------------------------------------------------
(* C2: when two get_or_create_user calls for the same new email both look  *)
(* the email up before either inserts, the call that loses the insert      *)
(* returns the winner's row: neither call returns an error and both return *)
(* the same user id.                                                       *)
C2_RaceLoserReturnsWinnersRow ==
    \A p \in Procs, q \in Procs :
        ( /\ IsGetOrCreate(ret[p]) /\ IsGetOrCreate(ret[q])
          /\ validate_email(ret[p].args[1])
          /\ CaseVariants(ret[p].args[1], ret[q].args[1]) )
        => /\ ReturnedUser(ret[p]) /\ ReturnedUser(ret[q])
           /\ ret[p].val[1][1].id = ret[q].val[1][1].id

---------------------------------------------------------------------------
(* C3: in every reachable state, under every interleaving of concurrent    *)
(* get_or_create_user, upgrade_user and can_ask_question calls, there is   *)
(* at most one users row per lower-cased email, and no step removes a      *)
(* users row: every row stays, with its id and its email.                  *)
C3_OneRowPerEmailAndNoDelete ==
    [][ /\ \A i \in 1..Len(users') : RowsFor(users', users'[i].email) = {i}
        /\ \A i \in 1..Len(users) :
              \E j \in 1..Len(users') : /\ users'[j].id = users[i].id
                                        /\ users'[j].email = users[i].email ]_vars

\* Two users are stored, one thread has lost the race for an insert, and
\* the other user has been upgraded in the meantime.
C3_Witness ==
    /\ Len(users) = 2
    /\ \E p \in Procs : /\ IsGetOrCreate(ret[p])
                        /\ ret[p].val[2] = Some("Email already exists")
    /\ \E i \in 1..Len(users) : users[i].subscription_tier = "basic"

---------------------------------------------------------------------------
(* Vocabulary of the quota properties.                                     *)

\* The number of questions logged for a user, ever.
LifetimeCount(user_id) ==
    Cardinality({i \in 1..Len(questions) : questions[i].user_id = user_id})

\* The calendar month (1..12) that day d of the year lies in.
MonthOf(d) ==
    CHOOSE m \in 1..12 : DaysBeforeMonth(m - 1) <= d /\ d < DaysBeforeMonth(m)

\* The number of a user's questions dated in the calendar month of time t.
CountInMonthOf(user_id, t) ==
    Cardinality({i \in 1..Len(questions) :
                    /\ questions[i].user_id = user_id
                    /\ MonthOf(questions[i].asked_at[1]) = MonthOf(t \div SecondsPerDay)})

\* Thread p's step is the one that ends a can_ask_question call which found
\* the user: loc[p] holds what the call read, ret'[p] what it returns.
CanAskReturns(p) == pc[p] = "caq_monthly" /\ pc'[p] = "idle"

\* The subscription the call read had not run out when the call read it.
Unexpired(l) == l.expires = None \/ fromisoformat(l.expires) >= l.at

\* The free tier's answer for a lifetime count, as the claims state it.
FreeAnswer(count) ==
    IF count >= 5 THEN <<FALSE, "free_limit_reached">> ELSE <<TRUE, "ok">>

---------------------------------------------------------------------------
(* C4: for a user stored as free, can_ask_question returns (True, 'ok')    *)
(* while the user's lifetime number of logged questions is below 5 and     *)
(* (False, 'free_limit_reached') once it is 5 or more; so a fresh user is  *)
(* denied at the check that follows the fifth logged question.            *)
C4_FreeTierLifetimeQuota ==
    \A p \in Procs :
        ( /\ ret[p].op = "can_ask_question"
          /\ ret[p].val[2] # "User not found"
          /\ ret[p].pre.stored = "free" )
        => ret[p].val = FreeAnswer(LifetimeCount(ret[p].args[1]))

\* A user who was never upgraded has five logged questions and the check
\* that followed the fifth has been denied.
C4_Witness ==
    /\ ret[1].op = "can_ask_question"
    /\ ret[1].val = <<FALSE, "free_limit_reached">>
    /\ ret[1].pre.stored = "free"
    /\ LifetimeCount(ret[1].args[1]) = 5
    /\ \A i \in 1..Len(users) : users[i].subscription_expires = None

---------------------------------------------------------------------------
(* C5: for a user stored as basic whose subscription has not expired,     *)
(* can_ask_question allows exactly when fewer than 100 of the user's       *)
(* questions are dated in the current calendar month, and denies with      *)
(* 'monthly_limit_reached' otherwise; questions of earlier months do not   *)
(* count.                                                                  *)
C5_BasicMonthlyQuota ==
    [][\A p \in Procs :
         ( /\ CanAskReturns(p)
           /\ loc[p].stored = "basic"
           /\ Unexpired(loc[p]) )
         => ret'[p].val = IF CountInMonthOf(loc[p].user_id, now) >= 100
                          THEN <<FALSE, "monthly_limit_reached">>
                          ELSE <<TRUE, "ok">>]_vars

\* In February a basic user with 100 or more questions, all of January,
\* has been allowed.
C5_Witness ==
    /\ ret[1].op = "can_ask_question"
    /\ ret[1].val = <<TRUE, "ok">>
    /\ ret[1].pre.stored = "basic"
    /\ MonthOf(now \div SecondsPerDay) = 2
    /\ LifetimeCount(ret[1].args[1]) >= 100
    /\ CountInMonthOf(ret[1].args[1], now) = 0

---------------------------------------------------------------------------
(* C6: for a user stored as unlimited whose subscription has not expired,  *)
(* can_ask_question returns (True, 'ok') whatever number of questions has  *)
(* been logged.                                                            *)
C6_UnlimitedNeverDenied ==
    [][\A p \in Procs :
         ( /\ CanAskReturns(p)
           /\ loc[p].stored = "unlimited"
           /\ Unexpired(loc[p]) )
         => ret'[p].val = <<TRUE, "ok">>]_vars

\* An unlimited user with 100 or more questions in the current month has
\* been allowed.
C6_Witness ==
    /\ ret[1].op = "can_ask_question"
    /\ ret[1].val = <<TRUE, "ok">>
    /\ ret[1].pre.stored = "unlimited"
    /\ CountInMonthOf(ret[1].args[1], now) >= 100

---------------------------------------------------------------------------
(* C7: when the stored tier is basic or unlimited and subscription_expires *)
(* is in the past, the can_ask_question call stores subscription_tier =    *)
(* 'free' and answers by the free tier's lifetime limit in that same call: *)
(* (False, 'free_limit_reached') with 5 or more logged questions,          *)
(* (True, 'ok') otherwise.                                                 *)
C7_ExpiredSubscriptionDowngraded ==
    [][\A p \in Procs :
         ( /\ CanAskReturns(p)
           /\ loc[p].stored \in {"basic", "unlimited"}
           /\ loc[p].expires # None
           /\ fromisoformat(loc[p].expires) < loc[p].at )
         => /\ \A i \in 1..Len(users') :
                  users'[i].id = loc[p].user_id
                  => users'[i].subscription_tier = "free"
            /\ \E i \in 1..Len(users') : users'[i].id = loc[p].user_id
            /\ ret'[p].val = FreeAnswer(LifetimeCount(loc[p].user_id))]_vars

\* A user whose paid subscription had run out has been denied by the free
\* limit, and the row says free.
C7_Witness ==
    /\ ret[1].op = "can_ask_question"
    /\ ret[1].val = <<FALSE, "free_limit_reached">>
    /\ ret[1].pre.stored \in {"basic", "unlimited"}
    /\ \E i \in 1..Len(users) : /\ users[i].id = ret[1].args[1]
                                /\ users[i].subscription_tier = "free"
                                /\ users[i].subscription_expires # None

---------------------------------------------------------------------------
(* Vocabulary of the upgrade properties.                                   *)

\* The last call of thread p was an upgrade_user of user_id to tier that
\* succeeded, made when the user was stored as free with five or more
\* logged questions (the user can_ask_question denies with
\* 'free_limit_reached', C4).
UpgradedFromDeniedFree(p, user_id, tier) ==
    /\ ret[p].op = "upgrade_user"
    /\ ret[p].val = <<TRUE, "User upgraded">>
    /\ ret[p].args[1] = user_id
    /\ ret[p].args[2] = tier
    /\ ret[p].pre.before # None
    /\ ret[p].pre.before[1][1] = "free"
    /\ LifetimeCount(user_id) >= 5

---------------------------------------------------------------------------
(* C8, as claimed: after upgrade_user(id, 'basic') succeeds for a free     *)
(* user who was denied with 'free_limit_reached', the next                 *)
(* can_ask_question for that user returns (True, 'ok') as long as fewer    *)
(* than 100 of the user's questions are dated in the current month.        *)
C8_UpgradeAllowsNextCheck ==
    [][\A p \in Procs :
         ( /\ CanAskReturns(p)
           /\ UpgradedFromDeniedFree(p, loc[p].user_id, "basic")
           /\ CountInMonthOf(loc[p].user_id, now) < 100 )
         => ret'[p].val = <<TRUE, "ok">>]_vars

(* C8, amended: the same, provided the check is made no later than the     *)
(* subscription_expires the upgrade stored (the time of the upgrade plus   *)
(* 30*months days); a later check downgrades the user and denies.         *)
C8_UpgradeAllowsNextCheckBeforeExpiry ==
    [][\A p \in Procs :
         ( /\ CanAskReturns(p)
           /\ UpgradedFromDeniedFree(p, loc[p].user_id, "basic")
           /\ CountInMonthOf(loc[p].user_id, now) < 100
           /\ loc[p].expires # None
           /\ loc[p].at <= fromisoformat(loc[p].expires) )
         => ret'[p].val = <<TRUE, "ok">>]_vars

\* The check that follows the upgrade of a denied free user is about to
\* return, having read the row as basic and not expired.
C8_Witness ==
    /\ pc[1] = "caq_monthly"
    /\ UpgradedFromDeniedFree(1, loc[1].user_id, "basic")
    /\ loc[1].tier = "basic"
    /\ loc[1].total_questions >= 5

---------------------------------------------------------------------------
(* C9: an upgrade_user call that follows an upgrade_user call for the same *)
(* user leaves the user with the tier of the second call and with          *)
(* subscription_expires = the time of the second call + 30*months days of  *)
(* the second call, whatever the first call stored.                        *)
C9_UpgradeOverwrites ==
    [][\A p \in Procs, u \in 1..2, t \in {"basic", "unlimited"},
          c \in CustomerIdInputs, m \in 1..(MaxMonths + 1) :
         ( /\ ret[p].op = "upgrade_user"
           /\ ret[p].val = <<TRUE, "User upgraded">>
           /\ ret[p].args[1] = u
           /\ UpgradeUser(p, u, t, c, m) )
         => \A i \in 1..Len(users') :
               users'[i].id = u
               => /\ users'[i].subscription_tier = t
                  /\ users'[i].subscription_expires =
                        << ((now + tz) \div SecondsPerDay) + 30 * m, 84,
                           (now + tz) % SecondsPerDay >>]_vars

\* A second upgrade has replaced a paid tier by the other one and an
\* expiry by an earlier one.
C9_Witness ==
    /\ ret[1].op = "upgrade_user"
    /\ ret[1].val = <<TRUE, "User upgraded">>
    /\ ret[1].pre.before # None
    /\ ret[1].pre.before[1][1] \in {"basic", "unlimited"} \ {ret[1].args[2]}
    /\ ret[1].pre.before[1][2] # None
    /\ \E i \in 1..Len(users) :
          /\ users[i].id = ret[1].args[1]
          /\ users[i].subscription_tier = ret[1].args[2]
          /\ fromisoformat(users[i].subscription_expires)
                < fromisoformat(ret[1].pre.before[1][2])

---------------------------------------------------------------------------
(* Vocabulary of the rejection property.                                   *)

\* The positions of character c in string s.
Positions(s, c) == {i \in 1..Len(s) : s[i] = c}

\* s has the shape local@domain.tld: one "@" with a local part before it,
\* and after it a domain, a last "." and a top-level name of two or more
\* letters.
HasShape(s) ==
    /\ Cardinality(Positions(s, "@")) = 1
    /\ LET a == CHOOSE i \in Positions(s, "@") : TRUE
           dots == {i \in Positions(s, ".") : i > a}
       IN  /\ a >= 2
           /\ \A i \in 1..(a - 1) : s[i] \in Letters \cup Digits \cup {".", "_", "%", "+", "-"}
           /\ dots # {}
           /\ LET d == CHOOSE i \in dots : \A j \in dots : j <= i
              IN  /\ d >= a + 2
                  /\ \A i \in (a + 1)..(d - 1) : s[i] \in Letters \cup Digits \cup {".", "-"}
                  /\ Len(s) - d >= 2
                  /\ \A i \in (d + 1)..Len(s) : s[i] \in Letters

\* The strings passed to get_or_create_user that, surrounding whitespace
\* aside, do not have the shape.
MalformedInputs ==
    {e \in {EmailA, EmailNewline, EmailNoTld, NotAnEmail} : ~HasShape(Strip(e))}

\* The three tables are, after the step, what they were before it.
StoreUnchanged == UNCHANGED <<users, questions, rate_limits>>

---------------------------------------------------------------------------
(* C10: get_or_create_user with a string that, surrounding whitespace      *)
(* aside, does not have the local@domain.tld shape returns the error       *)
(* 'Invalid email format' and no user, and upgrade_user with a tier        *)
(* outside {basic, unlimited} returns (False, 'Invalid tier'); both leave  *)
(* the users, questions and rate_limits tables as they were.               *)
C10_InvalidInputRejected ==
    [][\A p \in Procs :
         /\ \A email \in MalformedInputs :
               GetOrCreateUser_Lookup(p, email)
               => /\ ret'[p] = Returned("get_or_create_user", <<email>>,
                                        <<None, Some("Invalid email format")>>, <<>>)
                  /\ StoreUnchanged
         /\ \A u \in 1..2, t \in TierInputs \ {"basic", "unlimited"},
               c \in CustomerIdInputs, m \in 1..(MaxMonths + 1) :
               UpgradeUser(p, u, t, c, m)
               => /\ ret'[p] = Returned("upgrade_user", <<u, t, c, m>>,
                                        <<FALSE, "Invalid tier">>, <<>>)
                  /\ StoreUnchanged]_vars

\* With rows in all three tables, a malformed address has been rejected.
C10_Witness ==
    /\ ret[1].op = "get_or_create_user"
    /\ ~HasShape(Strip(ret[1].args[1]))
    /\ ret[1].val = <<None, Some("Invalid email format")>>
    /\ users # <<>> /\ questions # <<>> /\ rate_limits # <<>>

---------------------------------------------------------------------------
(* Vocabulary of the rate-limit properties.                                *)

\* Thread p's step is the one that ends a check_rate_limit call: loc[p]
\* holds what the call read, rate_limits the table as the call found it,
\* rate_limits' the table as the call leaves it.
CheckRateReturns(p) == pc[p] = "crl_decide" /\ pc'[p] = "idle"

\* The rows (by position) of table t for a (user, endpoint) pair.
PairRows(t, user_id, endpoint) ==
    {i \in 1..Len(t) : t[i].user_id = user_id /\ t[i].endpoint = endpoint}

\* A row's window_start was more than one minute in the past at UTC time at.
Stale(row, at) == fromisoformat(row.window_start) + 60 < at

---------------------------------------------------------------------------
(* C11: of the check_rate_limit calls made for a pair within one 60-second *)
(* window with limit M, exactly the first M return (True, 'ok'); every     *)
(* further call of the window returns (False, 'rate_limit_exceeded') and   *)
(* leaves the stored request_count as it was.  The window is the one that  *)
(* a thread's call opens when no row is stored for the pair; the calls in  *)
(* it are that thread's next calls for the pair, made less than a minute   *)
(* after the first.                                                        *)
C11_FirstMAllowedThenDenied ==
    [][\A p \in Procs :
         ( CheckRateReturns(p) /\ loc[p].run.fresh )
         => IF loc[p].run.n <= loc[p].max_per_minute
            THEN ret'[p].val = <<TRUE, "ok">>
            ELSE /\ ret'[p].val = <<FALSE, "rate_limit_exceeded">>
                 /\ rate_limits' = rate_limits]_vars

---------------------------------------------------------------------------
(* C12: when the row stored for a pair has a window_start more than one    *)
(* minute in the past, the next check_rate_limit call for the pair removes *)
(* the old row, stores a fresh row with request_count = 1 and returns      *)
(* (True, 'ok'), also when the old row stood at the cap.                   *)
C12_StaleWindowStartsAfresh ==
    [][\A p \in Procs :
         ( /\ CheckRateReturns(p)
           /\ \E i \in PairRows(rate_limits, loc[p].user_id, loc[p].endpoint) :
                 Stale(rate_limits[i], loc[p].at) )
         => /\ ret'[p].val = <<TRUE, "ok">>
            /\ PairRows(rate_limits', loc[p].user_id, loc[p].endpoint) # {}
            /\ \A i \in PairRows(rate_limits', loc[p].user_id, loc[p].endpoint) :
                  /\ rate_limits'[i].request_count = 1
                  /\ ~Stale(rate_limits'[i], loc[p].at)]_vars

---------------------------------------------------------------------------
(* C13: in every reachable state, also under concurrent first requests,    *)
(* table rate_limits holds at most one row per (user_id, endpoint) pair;   *)
(* so does the table as the connection that holds the write lock sees it.  *)
C13_OneWindowRowPerPair ==
    /\ \A i \in 1..Len(rate_limits) :
          PairRows(rate_limits, rate_limits[i].user_id, rate_limits[i].endpoint) = {i}
    /\ \A i \in 1..Len(work.rate_limits) :
          PairRows(work.rate_limits, work.rate_limits[i].user_id,
                   work.rate_limits[i].endpoint) = {i}

\* Both threads have been allowed a request for the same pair and the one
\* row of the pair has counted both.
C13_Witness ==
    /\ \A p \in Procs : /\ ret[p].op = "check_rate_limit"
                        /\ ret[p].val = <<TRUE, "ok">>
                        /\ ret[p].args = ret[1].args
    /\ Len(rate_limits) = 1
    /\ rate_limits[1].request_count = 2

---------------------------------------------------------------------------
(* C14: every check_rate_limit call, whatever it returns, removes for good *)
(* all the rate_limits rows, of all users and endpoints, whose             *)
(* window_start is more than one minute old: when the call has returned,   *)
(* no such row is stored.                                                  *)
C14_EveryCallSweepsStaleRows ==
    [][\A p \in Procs :
         CheckRateReturns(p)
         => \A i \in 1..Len(rate_limits') : ~Stale(rate_limits'[i], loc[p].at)]_vars

---------------------------------------------------------------------------
(* C15: get_user_stats is a pure read: for a user id with or without a     *)
(* users row, and also for a paid user whose subscription has expired, no  *)
(* step of the call changes table users, questions or rate_limits.         *)
C15_GetUserStatsIsPureRead ==
    [][\A p \in Procs : GetUserStats(p, 1..2) => StoreUnchanged]_vars

\* get_user_stats has returned the statistics of a user whose paid
\* subscription had run out, and the row still holds the paid tier.
C15_Witness ==
    /\ ret[1].op = "get_user_stats"
    /\ ret[1].val # None
    /\ ret[1].val[1].tier \in {"basic", "unlimited"}
    /\ fromisoformat(ret[1].val[1].subscription_expires) < now + tz
    /\ \E i \in 1..Len(users) : /\ users[i].id = ret[1].args[1]
                                /\ users[i].subscription_tier = ret[1].val[1].tier
    /\ questions # <<>> /\ rate_limits # <<>>

---------------------------------------------------------------------------
(* C16: get_user_stats reports remaining_questions = max(0, limit - count) *)
(* with the limit can_ask_question enforces (free: 5 on the lifetime       *)
(* count, basic: 100 on the count of the current month); so for a free or  *)
(* basic user whose tier has not expired remaining_questions is 0 exactly  *)
(* when can_ask_question denies.                                           *)
C16_RemainingAgreesWithQuota ==
    [][\A p \in Procs :
         ( /\ pc[p] = "gus_cost" /\ pc'[p] = "idle"
           /\ loc[p].user.subscription_tier \in {"free", "basic"}
           /\ \/ loc[p].user.subscription_expires = None
              \/ fromisoformat(loc[p].user.subscription_expires) >= now + tz )
         => LET user_id == loc[p].user_id
                denied == IF loc[p].user.subscription_tier = "free"
                          THEN LifetimeCount(user_id) >= 5
                          ELSE CountInMonthOf(user_id, now) >= 100
                remaining == ret'[p].val[1].remaining_questions
            IN  /\ ~remaining.inf
                /\ remaining.n = 0 <=> denied]_vars

---------------------------------------------------------------------------
(* C17: can_ask_question and get_user_stats, called with a user id that    *)
(* has no users row, return a not-found result ((False, 'User not found'), *)
(* None) and change no table.                                              *)
C17_UnknownUserNotFound ==
    [][\A p \in Procs, u \in 1..2 :
         (\A i \in 1..Len(users) : users[i].id # u)
         => /\ CanAskQuestion_SelectUser(p, u)
               => /\ ret'[p] = Returned("can_ask_question", <<u>>,
                                        <<FALSE, "User not found">>, <<>>)
                  /\ pc'[p] = "idle"
                  /\ StoreUnchanged
            /\ GetUserStats_SelectUser(p, u)
               => /\ ret'[p] = Returned("get_user_stats", <<u>>, None, <<>>)
                  /\ pc'[p] = "idle"
                  /\ StoreUnchanged]_vars

\* With rows in all three tables, get_user_stats has returned None for an
\* id that no row has.
C17_Witness ==
    /\ ret[1] = Returned("get_user_stats", <<2>>, None, <<>>)
    /\ users # <<>> /\ questions # <<>> /\ rate_limits # <<>>
    /\ \A i \in 1..Len(users) : users[i].id # 2

---------------------------------------------------------------------------
(* C18: upgrade_user and check_rate_limit, called with a user id that has  *)
(* no users row, return a failure and create or change no row: every      *)
(* rate_limits row references a stored user, and upgrade_user does not     *)
(* report 'User upgraded' when there was no user to change.                *)
C18_UnknownUserRefused ==
    /\ \A i \in 1..Len(rate_limits) :
          \E j \in 1..Len(users) : users[j].id = rate_limits[i].user_id
    /\ \A p \in Procs :
          ( ret[p].op = "upgrade_user" /\ ret[p].val = <<TRUE, "User upgraded">> )
          => ret[p].pre.before # None

---------------------------------------------------------------------------
---------------------------------------------------------------------------
(* C20: the outcomes are (allowed, reason) pairs with a closed set of      *)
(* reasons: for a stored user can_ask_question returns a reason in {ok,    *)
(* free_limit_reached, monthly_limit_reached, unknown_tier},               *)
(* check_rate_limit a reason in {ok, rate_limit_exceeded}, and allowed is  *)
(* True exactly when the reason is 'ok'.                                   *)
C20_ClosedReasonCodes ==
    \A p \in Procs :
        /\ ( ret[p].op = "can_ask_question" /\ ret[p].val # <<FALSE, "User not found">> )
           => /\ ret[p].val[2] \in {"ok", "free_limit_reached",
                                    "monthly_limit_reached", "unknown_tier"}
              /\ ret[p].val[1] \in BOOLEAN
              /\ ret[p].val[1] <=> (ret[p].val[2] = "ok")
        /\ ret[p].op = "check_rate_limit"
           => /\ ret[p].val[2] \in {"ok", "rate_limit_exceeded"}
              /\ ret[p].val[1] \in BOOLEAN
              /\ ret[p].val[1] <=> (ret[p].val[2] = "ok")

\* A user at the free limit has been denied by can_ask_question while the
\* user's rate-limit window stands at its cap.
C20_Witness ==
    /\ ret[1].op = "can_ask_question"
    /\ ret[1].val = <<FALSE, "free_limit_reached">>
    /\ \E i \in 1..Len(rate_limits) :
          /\ rate_limits[i].user_id = ret[1].args[1]
          /\ rate_limits[i].request_count >= 2

---------------------------------------------------------------------------
(* C21: the result of get_or_create_user tells whether the user is new:    *)
(* the flag the handlers send the welcome email on is true when the call   *)
(* inserted the users row and false when it returned a stored row.         *)
C21_NewFlagOnCreatingCall ==
    [][\A p \in Procs :
         ( /\ pc'[p] = "idle" /\ ret'[p] # ret[p]
           /\ IsGetOrCreate(ret'[p]) /\ ReturnedUser(ret'[p]) )
         => (WelcomeEmailDue(ret'[p].val[1][1]) <=> Len(users') = Len(users) + 1)]_vars

---------------------------------------------------------------------------
(* C22: get_or_create_user trims surrounding whitespace and lower-cases    *)
(* its argument before use: an email that is valid once trimmed is         *)
(* accepted, and resolves to the user of the trimmed email (same id, one   *)
(* users row).                                                             *)
C22_PaddedEmailResolvesToSameUser ==
    [][\A p \in Procs :
         ( /\ pc'[p] = "idle" /\ ret'[p] # ret[p]
           /\ IsGetOrCreate(ret'[p])
           /\ validate_email(Strip(ret'[p].args[1])) )
         => /\ ReturnedUser(ret'[p])
            /\ Cardinality(RowsFor(users', Strip(ret'[p].args[1]))) = 1
            /\ \A i \in RowsFor(users', Strip(ret'[p].args[1])) :
                  ret'[p].val[1][1].id = users'[i].id]_vars

---------------------------------------------------------------------------
(* C23: a stored users row keeps its id, email, email_hash and created_at; *)
(* a row changes only by upgrade_user called with its id (tier, customer   *)
(* id and expiry) or by the expiry downgrade of can_ask_question called    *)
(* with its id (the tier alone, to free); no step changes another user's   *)
(* row.                                                                    *)
C23_UsersRowFrame ==
    [][/\ Len(users') >= Len(users)
       /\ \A i \in 1..Len(users) :
             /\ users'[i].id = users[i].id
             /\ users'[i].email = users[i].email
             /\ users'[i].email_hash = users[i].email_hash
             /\ users'[i].created_at = users[i].created_at
             /\ users'[i] # users[i]
                => \E p \in Procs :
                      \/ /\ CanAskQuestion_Downgrade(p)
                         /\ loc[p].user_id = users[i].id
                         /\ users'[i] = [users[i] EXCEPT !.subscription_tier = "free"]
                      \/ \E t \in TierInputs, c \in CustomerIdInputs, m \in 1..MaxMonths :
                            UpgradeUser(p, users[i].id, t, c, m)]_vars

\* Of two stored users the first was upgraded and has been downgraded at
\* the expiry, the second holds a paid tier.
C23_Witness ==
    /\ Len(users) = 2
    /\ users[1].subscription_tier = "free"
    /\ users[1].subscription_expires # None
    /\ users[1].stripe_customer_id # None
    /\ users[2].subscription_tier = "unlimited"
    /\ users[2].created_at # users[1].created_at

---------------------------------------------------------------------------
(* C24: the sweep of check_rate_limit deletes a row only if its            *)
(* window_start is more than one minute before the current time: the row   *)
(* a pair's window was opened with less than one minute ago is there, with *)
(* its counter, when the next call for the pair looks it up.               *)
C24_SweepKeepsFreshRows ==
    [][\A p \in Procs :
         ( pc[p] = "crl_select" /\ pc'[p] = "crl_decide" )
         => \A i \in PairRows(rate_limits, loc[p].user_id, loc[p].endpoint) :
               loc[p].at - fromisoformat(rate_limits[i].window_start) < WindowSeconds
               => loc'[p].result = Some(rate_limits[i])]_vars

---------------------------------------------------------------------------
(* C25: every stored user's subscription_tier is free, basic or unlimited: *)
(* a row is created free, turns to another tier only by an upgrade_user    *)
(* call for its id that returned success, and turns back to free only by   *)
(* the expiry downgrade of can_ask_question; so can_ask_question never     *)
(* returns 'unknown_tier', whatever tier strings upgrade_user is called    *)
(* with.                                                                   *)
C25_TierIsOneOfThree ==
    [][/\ \A i \in 1..Len(users') :
             /\ users'[i].subscription_tier \in {"free", "basic", "unlimited"}
             /\ i > Len(users) => users'[i].subscription_tier = "free"
       /\ \A i \in 1..Len(users) :
             users'[i].subscription_tier # users[i].subscription_tier
             => IF users'[i].subscription_tier = "free"
                THEN \E p \in Procs : /\ CanAskQuestion_Downgrade(p)
                                      /\ loc[p].user_id = users[i].id
                ELSE \E p \in Procs :
                        /\ pc[p] = "idle" /\ pc'[p] = "idle"
                        /\ ret'[p].op = "upgrade_user"
                        /\ ret'[p].args[1] = users[i].id
                        /\ ret'[p].args[2] = users'[i].subscription_tier
                        /\ ret'[p].val = <<TRUE, "User upgraded">>
       /\ \A p \in Procs :
             ret'[p].op = "can_ask_question" => ret'[p].val[2] # "unknown_tier"]_vars

\* upgrade_user has refused the tier 'gold' for a stored user who holds a
\* paid tier, while another user is back on free after an expiry.
C25_Witness ==
    /\ ret[1].op = "upgrade_user"
    /\ ret[1].args[2] = "gold"
    /\ ret[1].val = <<FALSE, "Invalid tier">>
    /\ \E i \in 1..Len(users) : /\ users[i].id = ret[1].args[1]
                                /\ users[i].subscription_tier \in {"basic", "unlimited"}
    /\ \E i \in 1..Len(users) : /\ users[i].id # ret[1].args[1]
                                /\ users[i].subscription_tier = "free"
                                /\ users[i].subscription_expires # None

---------------------------------------------------------------------------
(* C26: the rate limiter is a fixed window anchored at the window's first  *)
(* request: M calls at the end of one window and M more at the start of    *)
(* the next may be allowed inside less than a minute, but in no span of at *)
(* most 60 seconds are more than 2 * M calls of a pair allowed.  The spans *)
(* looked at are the runs: successive calls for the pair, each made less   *)
(* than a minute after the first.                                          *)
C26_AtMostTwiceTheCapPerMinute ==
    \A p \in Procs :
        ret[p].op = "check_rate_limit"
        => ret[p].pre.allowed <= 2 * ret[p].args[3]

---------------------------------------------------------------------------
(* Vocabulary of C27.                                                      *)

\* Thread p is inside a check_rate_limit call, between its DELETE and its
\* last statement.
InsideCheckRate(p) == pc[p] \in {"crl_select", "crl_decide"}

\* The count stored for the pair of p's call in the rows that p's sweep
\* left: 0 if it left none.
CountLeftBySweep(p) ==
    LET left == {i \in PairRows(work.rate_limits, loc[p].user_id, loc[p].endpoint) : TRUE}
    IN  IF left = {} THEN 0
        ELSE work.rate_limits[CHOOSE i \in left : TRUE].request_count

(* C27, as claimed: a second check_rate_limit call for the pair can run    *)
(* between a call's read of the counter and its increment (so that an      *)
(* increment is lost); that is, whenever a thread has read the counter and *)
(* not yet written, another thread's call for the pair can start.          *)
C27_SecondCallRunsBetweenReadAndIncrement ==
    \A p \in Procs, q \in Procs :
        ( /\ p # q
          /\ pc[p] = "crl_decide" /\ loc[p].result # None
          /\ pc[q] = "idle" )
        => ENABLED CheckRateLimit_Sweep(q, loc[p].user_id, loc[p].endpoint,
                                        loc[p].max_per_minute)

(* C27, amended: two concurrent check_rate_limit calls do not interleave:  *)
(* while one thread is between its DELETE and its last statement no other  *)
(* thread is, and a call that returns (True, 'ok') leaves one row for the  *)
(* pair whose request_count is one more than the count its own sweep left  *)
(* stored (1 if it left none); no increment is lost between two threads.   *)
C27_NoInterleavingNoLostIncrement ==
    [][/\ \A p \in Procs, q \in Procs :
             (p # q /\ InsideCheckRate(p)') => ~InsideCheckRate(q)'
       /\ \A p \in Procs :
             ( CheckRateReturns(p) /\ ret'[p].val = <<TRUE, "ok">> )
             => /\ work.rate_limits = Sweep(rate_limits,
                                            isoformat(loc[p].at + tz - WindowSeconds))
                /\ \E i \in 1..Len(rate_limits') :
                      /\ PairRows(rate_limits', loc[p].user_id, loc[p].endpoint) = {i}
                      /\ rate_limits'[i].request_count = CountLeftBySweep(p) + 1]_vars

\* Each thread's first call for the pair has been allowed, one of them
\* opened the window, the other found it, and the row has counted both.
C27_Witness ==
    /\ \A p \in Procs : /\ ret[p].op = "check_rate_limit"
                        /\ ret[p].val = <<TRUE, "ok">>
                        /\ ret[p].args = ret[1].args
                        /\ ret[p].pre.n = 1
    /\ ret[1].pre.fresh # ret[2].pre.fresh
    /\ \E i \in 1..Len(rate_limits) :
          /\ rate_limits[i].user_id = ret[1].args[1]
          /\ rate_limits[i].endpoint = ret[1].args[2]
          /\ rate_limits[i].request_count = 2

---------------------------------------------------------------------------
(* C30: a stored user whose subscription_tier is basic or unlimited always *)
(* has a subscription_expires, so the expiry test of can_ask_question is   *)
(* never skipped for a paid user: a can_ask_question call that reads a     *)
(* paid tier reads an expiry with it, and if that expiry lay before the    *)
(* time of the call the user is stored as free when the call returns.      *)
C30_PaidTierHasExpiry ==
    [][/\ \A i \in 1..Len(users') :
             users'[i].subscription_tier \in {"basic", "unlimited"}
             => users'[i].subscription_expires # None
       /\ \A p \in Procs :
             ( CanAskReturns(p) /\ loc[p].stored \in {"basic", "unlimited"} )
             => /\ loc[p].expires # None
                /\ \A i \in 1..Len(users') :
                      users'[i].id = loc[p].user_id
                      => IF fromisoformat(loc[p].expires) < loc[p].at
                         THEN users'[i].subscription_tier = "free"
                         ELSE users'[i].subscription_tier = loc[p].stored]_vars

\* can_ask_question has allowed, as a free user, a user it read as paid
\* and past the expiry, while another user holds a paid tier that runs.
C30_Witness ==
    /\ ret[1].op = "can_ask_question"
    /\ ret[1].val = <<TRUE, "ok">>
    /\ ret[1].pre.stored \in {"basic", "unlimited"}
    /\ \E i \in 1..Len(users) : /\ users[i].id = ret[1].args[1]
                                /\ users[i].subscription_tier = "free"
                                /\ users[i].subscription_expires # None
    /\ \E i \in 1..Len(users) :
          /\ users[i].id # ret[1].args[1]
          /\ users[i].subscription_tier \in {"basic", "unlimited"}
          /\ fromisoformat(users[i].subscription_expires) > now + tz

---------------------------------------------------------------------------
(* C28: a free user never has more than 5 logged questions through the     *)
(* chat handlers, also when requests of the user are handled concurrently: *)
(* no two requests pass the quota check at count 4 and both log.           *)
C28_FreeUserLogsAtMostFive ==
    \A i \in 1..Len(users) :
        ( /\ users[i].subscription_tier = "free"
          /\ users[i].subscription_expires = None )
        => LifetimeCount(users[i].id) <= 5

---------------------------------------------------------------------------
(* Vocabulary of C29.                                                      *)

\* The responses that tell the client a request was denied.
DenialResponses == {"rate_limited", "free_limit_reached", "monthly_limit_reached"}

---------------------------------------------------------------------------
=============================================================================
